---- MODULE Spec2Model ----
(***************************************************************************)
(* Two-stage truck-trailer motion planning script                          *)
(* (rockit_examples/truck_trailer_multistage_2stages.py).                   *)
(*                                                                         *)
(* Units of the lattice the reals are modelled on:                         *)
(*   lengths          millimetres                (xcr = 0.5 m  is 500)     *)
(*   headings         tenths of a degree         (pi/2 is 900)             *)
(*   steering delta0  thousandths of a degree    (pi/6 is 30000)           *)
(*   velocity v0      hundredths of a mm/s       (0.2 m/s is 20000)        *)
(*   time             ticks, TicksPerTs ticks to one timestep Ts = 0.1 s   *)
(* The rates of delta0 and v0 are in their unit per second.  Inside the    *)
(* integrator headings are in thousandths of a degree and positions in     *)
(* hundredths of a millimetre ("fine" samples); every quotient is rounded  *)
(* to the nearest integer, halves up.                                      *)
(*                                                                         *)
(* Both controls are declared with order=1, which makes each of them a     *)
(* state whose derivative is the stage's actual (piecewise constant)       *)
(* control: a stage has the six states theta1, x1, y1, theta0, delta0, v0. *)
(* MultipleShooting(N, M, intg='rk') has as decision variables the start   *)
(* time, the duration, the states at the N+1 control grid points and the   *)
(* control of each of the N control intervals; consecutive grid states are *)
(* tied by M Runge-Kutta-4 steps of the ODE, and the path constraints are  *)
(* imposed on the control grid.  The sampler evaluates, between grid       *)
(* points, the polynomial the Runge-Kutta step defines.                    *)
(*                                                                         *)
(* The NLP solver is external.  It is modelled by its contract: a call     *)
(* either converges to values of the decision variables that satisfy every *)
(* constraint the script imposed, or it does not converge.  The values the *)
(* decision variables range over are a finite set of trajectories, some    *)
(* satisfying every constraint and some violating one of them; a converged *)
(* call returns a feasible one of least total time.                        *)
(***************************************************************************)
EXTENDS Integers, Sequences, FiniteSets

(* ------------------------------ bounds --------------------------------- *)
\* Ticks to one timestep Ts: the resolution of the time lattice.
TicksPerTs == 3

(* ------------------------- toggles and timestep ------------------------ *)
show_figures == TRUE
use_simulator_default == FALSE
save_for_gif == FALSE
Ts == TicksPerTs
\* Ts = 0.1 s: ten timesteps to the second.
TicksPerSec == 10 * TicksPerTs
\* The solver option "error_on_fail", and the option switched off.
error_on_fail_off == FALSE
error_on_fail == TRUE

(* ----------------------------- arithmetic ------------------------------ *)
\* a / b rounded to the nearest integer, halves up (b > 0).
RDiv(a, b) == (2 * a + b) \div (2 * b)
Min(a, b) == IF a <= b THEN a ELSE b
Max(a, b) == IF a >= b THEN a ELSE b

\* Sines and cosines are scaled by S.
S == 10000
\* round(S * sin(d degrees)) for d = 0..90.
SinTable ==
    << 0, 175, 349, 523, 698, 872, 1045, 1219, 1392, 1564,
       1736, 1908, 2079, 2250, 2419, 2588, 2756, 2924, 3090, 3256,
       3420, 3584, 3746, 3907, 4067, 4226, 4384, 4540, 4695, 4848,
       5000, 5150, 5299, 5446, 5592, 5736, 5878, 6018, 6157, 6293,
       6428, 6561, 6691, 6820, 6947, 7071, 7193, 7314, 7431, 7547,
       7660, 7771, 7880, 7986, 8090, 8192, 8290, 8387, 8480, 8572,
       8660, 8746, 8829, 8910, 8988, 9063, 9135, 9205, 9272, 9336,
       9397, 9455, 9511, 9563, 9613, 9659, 9703, 9744, 9781, 9816,
       9848, 9877, 9903, 9925, 9945, 9962, 9976, 9986, 9994, 9998,
       10000 >>

\* S * sin of m thousandths of a degree, 0 <= m <= 90000, interpolated
\* linearly between whole degrees.
SinQ(m) ==
    LET d == m \div 1000
        r == m % 1000
    IN IF r = 0 THEN SinTable[d + 1]
       ELSE RDiv(SinTable[d + 1] * (1000 - r) + SinTable[d + 2] * r, 1000)

\* S * sin(a), S * cos(a) and S * tan(a), a in thousandths of a degree.
sin(a) ==
    LET m == a % 360000
    IN IF m <= 90000 THEN SinQ(m)
       ELSE IF m <= 180000 THEN SinQ(180000 - m)
       ELSE IF m <= 270000 THEN -SinQ(m - 180000)
       ELSE -SinQ(360000 - m)
cos(a) == sin(a + 90000)
tan(a) == RDiv(S * sin(a), cos(a))

\* Thousandths of a degree per second from 1e-5 rad per second (180/pi).
Deg(w) == RDiv(w * 573, 1000)

(* ---------------------------- environment ------------------------------ *)
\* og = 0: sin(og) = 0, cos(og) = 1.
sg == 0
cg == 1
xcr == 500
ycr == 2000
pcr == <<xcr, ycr>>
xcl == -500
ycl == 2400
pcl == <<xcl, ycl>>

\* vertcat(n, -n.T @ p): the half-plane  n . (x, y) - n . p <= 0.
HalfPlane(n, p) == <<n[1], n[2], -(n[1] * p[1] + n[2] * p[2])>>
Neg(n) == <<-n[1], -n[2]>>
n1_1 == <<-cg, sg>>
w1_1 == HalfPlane(n1_1, pcl)
n2_1 == Neg(n1_1)
w2_1 == HalfPlane(n2_1, pcr)
n1_2 == <<sg, cg>>
w1_2 == HalfPlane(n1_2, pcl)
n2_2 == Neg(n1_2)
w2_2 == HalfPlane(n2_2, pcr)

\* horzcat(w1_1, w2_1, w1_2) and horzcat(w1_2, w2_2, w1_1)
Corridor1 == <<w1_1, w2_1, w1_2>>
Corridor2 == <<w1_2, w2_2, w1_1>>

(* ----------------------------- parameters ------------------------------ *)
\* truck_trailer_para.yaml: {truck: {L, M, W}, trailer1: {L, M, W}}.  The
\* file is not part of the sources; the values are those of a vehicle for
\* which the two-stage problem has solutions with N_1 = 10 and N_2 = 5.
L0 == 300
M0 == 100
W0 == 200
L1 == 300
M1 == 60
W1 == 200

x1_t0 == 0
y1_t0 == 0
theta1_t0 == 900
theta0_t0 == 900

x1_tf == 1500
y1_tf == (ycl + ycr) \div 2
theta1_tf == 0
theta0_tf == 0

\* Bounds of the path constraints of create_stage.
VMax == 20000
DVMax == 100000
DeltaMax == 30000
DDeltaMax == 18000
BetaMax == 900

\* Control intervals and integrator steps per control interval.
N_1 == 10
M_1 == 2
N_2 == 5
M_2 == 2

(* ------------------------------ geometry ------------------------------- *)
\* The point l ahead and w to the left of (x, y) heading theta; x, y in mm,
\* theta in tenths of a degree, the result scaled by S.
vert_single(x, y, theta, l, w) ==
    <<S * x + l * cos(100 * theta) - w * sin(100 * theta),
      S * y + l * sin(100 * theta) + w * cos(100 * theta)>>

\* The four corners of a vehicle footprint.
vert_vehic(x, y, theta, w_left, w_right, l_front, l_back) ==
    << vert_single(x, y, theta, l_front, w_left),
       vert_single(x, y, theta, l_front, -w_right),
       vert_single(x, y, theta, -l_back, -w_right),
       vert_single(x, y, theta, -l_back, w_left) >>

\* x0, y0: the truck's position, from the trailer's and the two headings.
X0(s) == s.x1 + RDiv(L1 * cos(100 * s.theta1) + M0 * cos(100 * s.theta0), S)
Y0(s) == s.y1 + RDiv(L1 * sin(100 * s.theta1) + M0 * sin(100 * s.theta0), S)

TruckVertices(s) == vert_vehic(X0(s), Y0(s), s.theta0, W0 \div 2, W0 \div 2, L0, M0)
TrailerVertices(s) == vert_vehic(s.x1, s.y1, s.theta1, W1 \div 2, W1 \div 2, L1, M1)

\* w.T @ phom <= 0 for one column of w and phom = (x, y, 1), p scaled by S.
InHalfPlane(wcol, p) == wcol[1] * p[1] + wcol[2] * p[2] + wcol[3] * S <= 0

\* The room constraint looping over the first column of w only.
RoomOKFirstColumn(s, w) ==
    /\ \A c \in 1..4 : InHalfPlane(w[1], TruckVertices(s)[c])
    /\ \A c \in 1..4 : InHalfPlane(w[1], TrailerVertices(s)[c])

\* Room constraint: every corner of both footprints in every half-plane of w.
RoomOK(s, w) ==
    /\ \A c \in 1..4 : \A j \in 1..Len(w) : InHalfPlane(w[j], TruckVertices(s)[c])
    /\ \A c \in 1..4 : \A j \in 1..Len(w) : InHalfPlane(w[j], TrailerVertices(s)[c])

(* ------------------------------- model --------------------------------- *)
\* The six states of a stage at one time, and the derivatives of delta0 and
\* v0 (the stage's controls) over one control interval.
Sample(th1, x, y, th0, d, v) ==
    [theta1 |-> th1, x1 |-> x, y1 |-> y, theta0 |-> th0, delta0 |-> d, v0 |-> v]
Control(dd, dv) == [delta0 |-> dd, v0 |-> dv]

\* The declared states of a stage, in declaration order: stage.state() four
\* times, then the two order-1 controls.
states == <<"theta1", "x1", "y1", "theta0", "delta0", "v0">>

\* A grid sample in the integrator's units, and back (rounded).
Fine(s) == Sample(100 * s.theta1, 100 * s.x1, 100 * s.y1, 100 * s.theta0,
                  s.delta0, s.v0)
Coarse(s) == Sample(RDiv(s.theta1, 100), RDiv(s.x1, 100), RDiv(s.y1, 100),
                    RDiv(s.theta0, 100), s.delta0, s.v0)

\* The kinematic model.  beta01 in the units of the headings of s; dtheta0
\* and dtheta1 in 1e-5 rad/s and v1 in hundredths of a mm/s, s a fine sample.
beta01(s) == s.theta0 - s.theta1
dtheta0(s) == RDiv(s.v0 * tan(s.delta0), 10 * L0)
dtheta1(s) ==
    RDiv(s.v0 * sin(beta01(s)), 10 * L1)
    - RDiv(RDiv(dtheta0(s) * cos(beta01(s)), S) * M0, L1)
v1(s) ==
    RDiv(s.v0 * cos(beta01(s)), S)
    + RDiv(RDiv(M0 * dtheta0(s), 1000) * sin(beta01(s)), S)

\* set_der: the right-hand side of the ODE at the fine sample s under the
\* control u.
set_der(s, u) ==
    Sample(Deg(dtheta1(s)),
           RDiv(v1(s) * cos(s.theta1), S),
           RDiv(v1(s) * sin(s.theta1), S),
           Deg(dtheta0(s)),
           u.delta0,
           u.v0)

\* s + k * num / dn, state by state.
Axpy(s, k, num, dn) ==
    Sample(s.theta1 + RDiv(k.theta1 * num, dn),
           s.x1 + RDiv(k.x1 * num, dn),
           s.y1 + RDiv(k.y1 * num, dn),
           s.theta0 + RDiv(k.theta0 * num, dn),
           s.delta0 + RDiv(k.delta0 * num, dn),
           s.v0 + RDiv(k.v0 * num, dn))

\* The four slopes of one Runge-Kutta-4 step of length hs / den seconds.
rk_slopes(s, u, hs, den) ==
    LET k1 == set_der(s, u)
        k2 == set_der(Axpy(s, k1, hs, 2 * den), u)
        k3 == set_der(Axpy(s, k2, hs, 2 * den), u)
        k4 == set_der(Axpy(s, k3, hs, den), u)
    IN <<k1, k2, k3, k4>>

\* k1 + 2 k2 + 2 k3 + k4
rk_sum(ks) ==
    Sample(ks[1].theta1 + 2 * ks[2].theta1 + 2 * ks[3].theta1 + ks[4].theta1,
           ks[1].x1 + 2 * ks[2].x1 + 2 * ks[3].x1 + ks[4].x1,
           ks[1].y1 + 2 * ks[2].y1 + 2 * ks[3].y1 + ks[4].y1,
           ks[1].theta0 + 2 * ks[2].theta0 + 2 * ks[3].theta0 + ks[4].theta0,
           ks[1].delta0 + 2 * ks[2].delta0 + 2 * ks[3].delta0 + ks[4].delta0,
           ks[1].v0 + 2 * ks[2].v0 + 2 * ks[3].v0 + ks[4].v0)

rk(s, u, hs, den) == Axpy(s, rk_sum(rk_slopes(s, u, hs, den)), hs, 6 * den)

\* n Runge-Kutta-4 steps from the fine sample s.
RECURSIVE Integrate(_, _, _, _, _)
Integrate(s, u, hs, den, n) ==
    IF n = 0 THEN s ELSE Integrate(rk(s, u, hs, den), u, hs, den, n - 1)

\* The integrator over one control interval of h ticks: M steps of h / M
\* ticks (h steps of 1 / M tick, M * TicksPerSec of them to the second).
F(s, u, h, M) == Coarse(Integrate(Fine(s), u, h, M * TicksPerSec, M))

\* Path constraints on v0, delta0, their derivatives and the articulation
\* angle beta01, at a grid sample s of a control interval with control u.
PathOK(s, u) ==
    /\ -VMax <= s.v0 /\ s.v0 <= VMax
    /\ -DVMax <= u.v0 /\ u.v0 <= DVMax
    /\ -DeltaMax <= s.delta0 /\ s.delta0 <= DeltaMax
    /\ -DDeltaMax <= u.delta0 /\ u.delta0 <= DDeltaMax
    /\ -BetaMax <= beta01(s) /\ beta01(s) <= BetaMax

StageOf(t0, N, M, h, X, U) ==
    [t0 |-> t0, T |-> N * h, N |-> N, M |-> M, X |-> X, U |-> U]
tf(stage) == stage.t0 + stage.T
at_t0(stage) == stage.X[1]
at_tf(stage) == stage.X[stage.N + 1]

\* create_stage: what the stage imposes on its own decision variables.  The
\* last grid point belongs to the last control interval.
create_stage(stage, w) ==
    /\ stage.T >= 0
    /\ \A k \in 1..(stage.N + 1) : PathOK(stage.X[k], stage.U[Min(k, stage.N)])
    /\ \A k \in 1..stage.N :
          stage.X[k + 1] = F(stage.X[k], stage.U[k], stage.T \div stage.N, stage.M)
    /\ \A k \in 1..(stage.N + 1) : RoomOK(stage.X[k], w)

\* The stitching with its loop one state short.
stitch_stages_short(stage1, stage2) ==
    /\ tf(stage1) = stage2.t0
    /\ \A i \in 1..(Len(states) - 1) :
          at_t0(stage2)[states[i]] = at_tf(stage1)[states[i]]

stitch_stages(stage1, stage2) ==
    /\ tf(stage1) = stage2.t0
    /\ \A i \in 1..Len(states) :
          at_t0(stage2)[states[i]] = at_tf(stage1)[states[i]]

InitialConstraints(stage_1) ==
    /\ stage_1.t0 = 0
    /\ at_t0(stage_1).x1 = x1_t0
    /\ at_t0(stage_1).y1 = y1_t0
    /\ at_t0(stage_1).theta1 = theta1_t0
    /\ at_t0(stage_1).theta0 = theta0_t0

\* The final constraint with the line for x1 missing.
FinalConstraintsNoX(stage_2) ==
    /\ at_tf(stage_2).y1 = y1_tf
    /\ at_tf(stage_2).theta1 = theta1_tf
    /\ at_tf(stage_2).theta0 = theta0_tf

FinalConstraints(stage_2) ==
    /\ at_tf(stage_2).x1 = x1_tf
    /\ at_tf(stage_2).y1 = y1_tf
    /\ at_tf(stage_2).theta1 = theta1_tf
    /\ at_tf(stage_2).theta0 = theta0_tf

(* ------------------------- candidate solutions ------------------------- *)
\* A plan is the length h of a control interval in ticks, the first grid
\* sample and the control of each control interval.

\* Stage 1 in 20 s: ten control intervals of 2 s (20 Ts).
Approach_P ==
    [h |-> 20 * TicksPerTs,
     X1 |-> Sample(900, 0, 0, 900, 29700, 14696),
     U |-> << Control(-3573, -1855), Control(-15426, 833), Control(-5368, 2184),
            Control(13354, 1401), Control(-16587, -3254), Control(-2096, 656),
            Control(17144, -15122), Control(-17143, 17718), Control(-2, -1),
            Control(9991, -12574) >>]

\* Stage 1 with control intervals one tick longer, so that its duration is
\* not a whole number of timesteps.
Approach_Q ==
    [h |-> 20 * TicksPerTs + 1,
     X1 |-> Sample(900, 0, 0, 900, 29700, 15056),
     U |-> << Control(-2540, -1838), Control(-16896, 1010), Control(-6443, 2424),
            Control(16228, 732), Control(-17828, -5746), Control(-1736, 4806),
            Control(17821, -17197), Control(-17814, 18150), Control(-1, -1318),
            Control(11249, -8644) >>]

\* Stage 1 in 24 s.
Approach_Slow ==
    [h |-> 24 * TicksPerTs,
     X1 |-> Sample(900, 0, 0, 900, 29400, 14788),
     U |-> << Control(-6, -2652), Control(-14161, -2057), Control(-9312, 5422),
            Control(12277, 230), Control(-4234, -2202), Control(-8802, 2446),
            Control(16298, -14552), Control(-16321, 15267), Control(-234, -640),
            Control(16629, -11097) >>]

\* Stage 1 ending 23 mm lower in the corner than Approach_P.
Approach_Low ==
    [h |-> 20 * TicksPerTs,
     X1 |-> Sample(900, 0, 0, 900, 29696, 14693),
     U |-> << Control(-3578, -1871), Control(-15449, 840), Control(-5393, 2136),
            Control(13342, 1335), Control(-16591, -3199), Control(-2010, 676),
            Control(17170, -15202), Control(-17116, 17785), Control(0, -111),
            Control(9995, -12522) >>]

\* Stage 1 steering faster than pi/10 per second in its eighth control
\* interval.
Approach_FastSteer ==
    [h |-> 20 * TicksPerTs,
     X1 |-> Sample(900, 0, 0, 900, 29700, 14700),
     U |-> << Control(-3551, -1849), Control(-15462, 805), Control(-5366, 2172),
            Control(13339, 1409), Control(-16525, -3202), Control(-1589, 571),
            Control(17817, -15159), Control(-18435, 17769), Control(4, 24),
            Control(9983, -12574) >>]

\* Approach_P started 5 mm to the right of the initial position.
Approach_Shifted ==
    [h |-> 20 * TicksPerTs,
     X1 |-> Sample(900, 5, 0, 900, 29700, 14696),
     U |-> << Control(-3573, -1855), Control(-15426, 833), Control(-5368, 2184),
            Control(13354, 1401), Control(-16587, -3254), Control(-2096, 656),
            Control(17144, -15122), Control(-17143, 17718), Control(-2, -1),
            Control(9991, -12574) >>]

\* Stage 2 in 10 s from the junction of Approach_P to the target.
Corner_P ==
    [h |-> 20 * TicksPerTs,
     X1 |-> Sample(326, -169, 2123, -91, -9712, -5332),
     U |-> << Control(9580, 12454), Control(-5792, 58), Control(1044, 38),
            Control(2055, 17), Control(-3764, -5) >>]

\* Stage 2 from the junction of Approach_Q to the target, with control
\* intervals two ticks shorter: Approach_Q and Corner_Q take as long as
\* Approach_P and Corner_P.
Corner_Q ==
    [h |-> 20 * TicksPerTs - 2,
     X1 |-> Sample(312, -172, 2122, -83, -6820, -442),
     U |-> << Control(8381, 10479), Control(-6024, 1), Control(1084, 20),
            Control(2055, -3), Control(-3595, -92) >>]

\* Stage 2 in 12 s from the junction of Approach_Slow to the target.
Corner_Slow ==
    [h |-> 24 * TicksPerTs,
     X1 |-> Sample(341, -168, 2122, -98, 10524, -8814),
     U |-> << Control(2602, 10837), Control(-10096, 582), Control(-1216, -599),
            Control(13356, -611), Control(-16080, 176) >>]

\* Stage 2 from the junction of Approach_Low, where the trailer's rear
\* corner is below the wall y = ycr.
Corner_Low ==
    [h |-> 20 * TicksPerTs,
     X1 |-> Sample(342, -171, 2100, -77, -9564, -5573),
     U |-> << Control(9129, 12644), Control(-5466, 40), Control(909, 44),
            Control(2151, 39), Control(-3532, -221) >>]

\* Stage 2 from the junction of Approach_FastSteer to the target.
Corner_AfterFastSteer ==
    [h |-> 20 * TicksPerTs,
     X1 |-> Sample(331, -174, 2117, -89, -9870, -5368),
     U |-> << Control(9635, 12499), Control(-5792, 65), Control(1027, 42),
            Control(2118, 17), Control(-3798, 0) >>]

\* Stage 2 from the junction of Approach_P with another velocity v0.
Corner_VJump ==
    [h |-> 20 * TicksPerTs,
     X1 |-> Sample(326, -169, 2123, -91, -9712, -4932),
     U |-> << Control(9580, 12288), Control(-5787, -23), Control(1054, 12),
            Control(2058, 45), Control(-3759, 96) >>]

\* Stage 2 from the junction of Approach_P ending 5 mm short of x1_tf.
Corner_Short ==
    [h |-> 20 * TicksPerTs,
     X1 |-> Sample(326, -169, 2123, -91, -9712, -5332),
     U |-> << Control(9578, 12436), Control(-5784, 45), Control(1050, 34),
            Control(2057, 17), Control(-3759, 8) >>]

\* Stage 2 from the junction of Approach_P to the target, faster than
\* 0.2 m/s at a grid point.
Corner_FastDrive ==
    [h |-> 20 * TicksPerTs,
     X1 |-> Sample(326, -169, 2123, -91, -9712, -5332),
     U |-> << Control(9499, 12829), Control(-5711, -250), Control(1115, -159),
            Control(1992, -70), Control(-3828, -22) >>]

Approaches ==
    {Approach_P, Approach_Q, Approach_Slow, Approach_Low, Approach_FastSteer,
     Approach_Shifted}
Corners ==
    {Corner_P, Corner_Q, Corner_Slow, Corner_Low, Corner_AfterFastSteer,
     Corner_VJump, Corner_Short, Corner_FastDrive}

\* The grid samples that close every gap: X[k+1] = F(X[k], U[k]).
RECURSIVE Shoot(_, _, _, _)
Shoot(X, U, h, M) ==
    IF Len(X) > Len(U) THEN X
    ELSE Shoot(Append(X, F(X[Len(X)], U[Len(X)], h, M)), U, h, M)

\* The same grid samples with the trailer 5 mm off at the third grid point.
WithGap(X) == [X EXCEPT ![3] = [@ EXCEPT !.x1 = @ + 5]]

\* The values the decision variables of a stage range over.
StageCandidates(N, M, starts, plans) ==
    { StageOf(t0, N, M, p.h, Shoot(<<p.X1>>, p.U, p.h, M), p.U) :
        t0 \in starts, p \in plans }
    \cup { StageOf(t0, N, M, p.h, WithGap(Shoot(<<p.X1>>, p.U, p.h, M)), p.U) :
        t0 \in starts, p \in plans }

Stage1Candidates == StageCandidates(N_1, M_1, {0, 1}, Approaches)
Stage2Candidates ==
    StageCandidates(N_2, M_2,
                    {N_1 * Approach_P.h, N_1 * Approach_P.h + 1,
                     N_1 * Approach_Q.h, N_1 * Approach_Slow.h},
                    Corners)

(* ------------------------------- state --------------------------------- *)
VARIABLES
    pc,            \* where the script is: solve, error, resample, write,
                   \* simulate, simloop, plot, animate, show, done
    use_simulator, \* the in-script toggle (False by default)
    gist,          \* the solved decision variables of both stages
    solveCalls,    \* how often solve_ocp was called
    solveFailed,   \* whether a call did not converge
    t1_sol,        \* solve_ocp's outputs t1 and t2
    t2_sol,
    t1_ctrl,       \* np.arange(0., t1_sol, Ts)
    t2_ctrl,       \* np.arange(t1_sol, t2_sol, Ts)
    ctrl,          \* the concatenated resampled arrays
    file,          \* truck_trailer_x_u.yaml
    k,             \* the index of the simulator loop, then of the animation
    x_current,     \* the simulator's state
    sim,           \* the simulator's logging arrays
    uLog,          \* the controls handed to the integrator, in order
    figures,       \* the figures opened
    frames,        \* the animation frames shown (calls of pause)
    pngs           \* the frames saved to a file

vars == <<pc, use_simulator, gist, solveCalls, solveFailed, t1_sol, t2_sol,
          t1_ctrl, t2_ctrl, ctrl, file, k, x_current, sim, uLog, figures,
          frames, pngs>>

NoStage(N, M) == [t0 |-> 0, T |-> 0, N |-> N, M |-> M, X |-> <<>>, U |-> <<>>]
NoArrays ==
    [theta1 |-> <<>>, x1 |-> <<>>, y1 |-> <<>>, theta0 |-> <<>>, x0 |-> <<>>,
     y0 |-> <<>>, delta0 |-> <<>>, v0 |-> <<>>, t |-> <<>>]
NoDocument ==
    [x |-> [px1 |-> <<>>, py1 |-> <<>>, theta1 |-> <<>>, px0 |-> <<>>,
            py0 |-> <<>>, theta0 |-> <<>>],
     u |-> [delta |-> <<>>, v_l |-> <<>>],
     t |-> <<>>]
NoSim ==
    [theta1 |-> <<>>, x1 |-> <<>>, y1 |-> <<>>, theta0 |-> <<>>, x0 |-> <<>>,
     y0 |-> <<>>]
NoState == [theta1 |-> 0, x1 |-> 0, y1 |-> 0, theta0 |-> 0]

Init ==
    /\ pc = "solve"
    /\ use_simulator \in BOOLEAN
    /\ gist = [stage_1 |-> NoStage(N_1, M_1), stage_2 |-> NoStage(N_2, M_2)]
    /\ solveCalls = 0
    /\ solveFailed = FALSE
    /\ t1_sol = 0
    /\ t2_sol = 0
    /\ t1_ctrl = <<>>
    /\ t2_ctrl = <<>>
    /\ ctrl = NoArrays
    /\ file = [opens |-> 0, writes |-> 0, closes |-> 0, content |-> NoDocument]
    /\ k = 0
    /\ x_current = NoState
    /\ sim = NoSim
    /\ uLog = <<>>
    /\ figures = {}
    /\ frames = 0
    /\ pngs = 0

(* ------------------------------- solve --------------------------------- *)
\* Stage 1 with its initial constraints, stage 2 with its final constraint.
Stage1Feasible ==
    { stage_1 \in Stage1Candidates :
        InitialConstraints(stage_1) /\ create_stage(stage_1, Corridor1) }
Stage2Feasible ==
    { stage_2 \in Stage2Candidates :
        FinalConstraints(stage_2) /\ create_stage(stage_2, Corridor2) }

\* The feasible set of the assembled two-stage problem: every constraint of
\* both stages, and the stitching of stage 2 to stage 1.
Feasible ==
    { g \in [stage_1 : Stage1Feasible, stage_2 : Stage2Feasible] :
        stitch_stages(g.stage_1, g.stage_2) }

\* add_objective(stage.T) in both stages: the total time.
objective(g) == g.stage_1.T + g.stage_2.T

\* The feasible points no other feasible point is faster than.
Optimal == { g \in Feasible : \A o \in Feasible : objective(g) <= objective(o) }

\* solve_ocp converges: the outputs are t1 = stage_1.T, t2 = t1 + stage_2.T
\* and the gist of a point that satisfies every constraint and minimises
\* the total time.
SolveOk ==
    /\ pc = "solve"
    /\ \E g \in Optimal :
          /\ gist' = g
          /\ t1_sol' = g.stage_1.T
          /\ t2_sol' = g.stage_1.T + g.stage_2.T
    /\ solveCalls' = solveCalls + 1
    /\ pc' = "resample"
    /\ UNCHANGED <<use_simulator, solveFailed, t1_ctrl, t2_ctrl, ctrl, file, k,
                   x_current, sim, uLog, figures, frames, pngs>>

\* solve_ocp does not converge.  With error_on_fail the call raises and the
\* script ends; without it the call would return its last iterate, which
\* need not satisfy anything.
SolveFail ==
    /\ pc = "solve"
    /\ solveCalls' = solveCalls + 1
    /\ solveFailed' = TRUE
    /\ IF error_on_fail
          THEN /\ pc' = "error"
               /\ UNCHANGED <<gist, t1_sol, t2_sol>>
          ELSE /\ pc' = "resample"
               /\ \E stage_1 \in Stage1Candidates, stage_2 \in Stage2Candidates :
                     /\ gist' = [stage_1 |-> stage_1, stage_2 |-> stage_2]
                     /\ t1_sol' = stage_1.T
                     /\ t2_sol' = stage_1.T + stage_2.T
    /\ UNCHANGED <<use_simulator, t1_ctrl, t2_ctrl, ctrl, file, k, x_current,
                   sim, uLog, figures, frames, pngs>>

(* ------------------------------ resample ------------------------------- *)
\* np.arange(start, stop, step) with a non-integer step: ceil((stop-start)/step)
\* entries start + i*step.  The quotient is computed in floating point, so
\* where stop - start is a whole number of steps its rounding decides whether
\* the length is that number or one more (roundUp); the extra entry is stop.
\* (numpy: "The interval does not include this value, except in some cases
\* where step is not an integer and floating point round-off affects the
\* length of out"; np.arange(1, 1.3, 0.1) has the four entries 1, 1.1, 1.2,
\* 1.3.)  The entries themselves are kept exact.
ArangeLen(start, stop, step, roundUp) ==
    IF stop <= start THEN 0
    ELSE (stop - start + step - 1) \div step
         + (IF roundUp /\ (stop - start) % step = 0 THEN 1 ELSE 0)

\* np.linspace(start, stop, n, endpoint=False) in place of np.arange.
ArangeAsLinspace(start, stop, step, roundUp) ==
    [i \in 1..ArangeLen(start, stop, step, roundUp) |->
        start + ((i - 1) * (stop - start)) \div ArangeLen(start, stop, step, roundUp)]

Arange(start, stop, step, roundUp) ==
    [i \in 1..ArangeLen(start, stop, step, roundUp) |-> start + (i - 1) * step]

\* The polynomial of a Runge-Kutta-4 step from x with slopes a, b, c, d,
\* tau / den seconds into a step of hs / den seconds:
\*   x + tau a + tau^2 (b-a)/DT + tau^3 2(c-b)/(3 DT^2) + tau^4 (d-2c+a)/(6 DT^3)
Poly(x, a, b, c, d, tau, hs, den) ==
    LET inner ==
            6 * a + RDiv(tau * (6 * (b - a)
                     + RDiv(tau * (4 * (c - b)
                              + RDiv(tau * (d - 2 * c + a), hs)), hs)), hs)
    IN x + RDiv(tau * inner, 6 * den)

PolySample(s, ks, tau, hs, den) ==
    Sample(Poly(s.theta1, ks[1].theta1, ks[2].theta1, ks[3].theta1, ks[4].theta1, tau, hs, den),
           Poly(s.x1, ks[1].x1, ks[2].x1, ks[3].x1, ks[4].x1, tau, hs, den),
           Poly(s.y1, ks[1].y1, ks[2].y1, ks[3].y1, ks[4].y1, tau, hs, den),
           Poly(s.theta0, ks[1].theta0, ks[2].theta0, ks[3].theta0, ks[4].theta0, tau, hs, den),
           Poly(s.delta0, ks[1].delta0, ks[2].delta0, ks[3].delta0, ks[4].delta0, tau, hs, den),
           Poly(s.v0, ks[1].v0, ks[2].v0, ks[3].v0, ks[4].v0, tau, hs, den))

\* The grid-unit sample tau / den seconds into the Runge-Kutta step that
\* starts at the fine sample s under the control u.
StepPoly(s, u, tau, hs, den) ==
    Coarse(PolySample(s, rk_slopes(s, u, hs, den), tau, hs, den))

\* The states of a stage at time t: the control interval i and the
\* integrator step j that t falls in (the last ones for t = tf), and the
\* step's polynomial at t.  Times inside are in units of 1 / M tick.
StateAt(stage, t) ==
    LET h == stage.T \div stage.N
        den == stage.M * TicksPerSec
        ts == stage.M * (t - stage.t0)
        i == Min(Max(ts \div (stage.M * h), 0), stage.N - 1)
        loc == ts - i * stage.M * h
        j == Min(loc \div h, stage.M - 1)
        tau == loc - j * h
    IN StepPoly(Integrate(Fine(stage.X[i + 1]), stage.U[i + 1], h, den, j),
                stage.U[i + 1], tau, h, den)

OnControlGrid(stage, t) ==
    LET tau == t - stage.t0
    IN /\ 0 <= tau /\ tau <= stage.T
       /\ stage.T = 0 \/ tau % (stage.T \div stage.N) = 0

\* The expressions a sampler evaluates at time t: the states, and x0 and y0,
\* which are expressions of the states.
SignalsOf(s) ==
    [theta1 |-> s.theta1, x1 |-> s.x1, y1 |-> s.y1, theta0 |-> s.theta0,
     x0 |-> X0(s), y0 |-> Y0(s), delta0 |-> s.delta0, v0 |-> s.v0]
SignalsAt(stage, t) == SignalsOf(StateAt(stage, t))

Signals == {"theta1", "x1", "y1", "theta0", "x0", "y0", "delta0", "v0"}

\* sampler(gist_sol, times): one array per signal, one entry per time.
sampler(stage, times) ==
    LET at == [i \in 1..Len(times) |-> SignalsAt(stage, times[i])] \o <<>>
    IN [sig \in Signals |-> [i \in 1..Len(times) |-> at[i][sig]]]

\* np.concatenate handed the first array twice.
ConcatenateFirstTwice(a, b) == a \o a
Concatenate(a, b) == a \o b

\* The nine np.concatenate calls: the two stages' arrays of every signal,
\* and the two time arrays.
ConcatenateAll(ctrl1, ctrl2, times1, times2) ==
    [theta1 |-> Concatenate(ctrl1.theta1, ctrl2.theta1),
     x1 |-> Concatenate(ctrl1.x1, ctrl2.x1),
     y1 |-> Concatenate(ctrl1.y1, ctrl2.y1),
     theta0 |-> Concatenate(ctrl1.theta0, ctrl2.theta0),
     x0 |-> Concatenate(ctrl1.x0, ctrl2.x0),
     y0 |-> Concatenate(ctrl1.y0, ctrl2.y0),
     delta0 |-> Concatenate(ctrl1.delta0, ctrl2.delta0),
     v0 |-> Concatenate(ctrl1.v0, ctrl2.v0),
     t |-> Concatenate(times1, times2)]

Resampled(g, times1, times2) ==
    ConcatenateAll(sampler(g.stage_1, times1), sampler(g.stage_2, times2),
                   times1, times2)

Resample ==
    /\ pc = "resample"
    /\ \E r1 \in BOOLEAN, r2 \in BOOLEAN :
          /\ t1_ctrl' = Arange(0, t1_sol, Ts, r1)
          /\ t2_ctrl' = Arange(t1_sol, t2_sol, Ts, r2)
    /\ ctrl' = Resampled(gist, t1_ctrl', t2_ctrl')
    /\ pc' = "write"
    /\ UNCHANGED <<use_simulator, gist, solveCalls, solveFailed, t1_sol, t2_sol,
                   file, k, x_current, sim, uLog, figures, frames, pngs>>

(* ----------------------------- result file ----------------------------- *)
result_yaml ==
    [x |-> [px1 |-> ctrl.x1, py1 |-> ctrl.y1, theta1 |-> ctrl.theta1,
            px0 |-> ctrl.x0, py0 |-> ctrl.y0, theta0 |-> ctrl.theta0],
     u |-> [delta |-> ctrl.delta0, v_l |-> ctrl.v0],
     t |-> ctrl.t]

\* with open(..., 'w') as file: yaml.dump(result_yaml, file)
WriteResults ==
    /\ pc = "write"
    /\ file' = [opens |-> file.opens + 1, writes |-> file.writes + 1,
                closes |-> file.closes + 1, content |-> result_yaml]
    /\ pc' = "simulate"
    /\ UNCHANGED <<use_simulator, gist, solveCalls, solveFailed, t1_sol, t2_sol,
                   t1_ctrl, t2_ctrl, ctrl, k, x_current, sim, uLog, figures,
                   frames, pngs>>

(* ------------------------------ simulator ------------------------------ *)
Nsim == Len(ctrl.t)

\* np.zeros(n)
Zeros(n) == [i \in 1..n |-> 0]

\* simulator(simu, x_current, u, dt): one step of the vehicle integrator,
\* a Runge-Kutta-4 step of the kinematic model over dt ticks with the
\* control u = (delta0, v0) held.
simulator(x, u, dt) ==
    LET s == Fine(Sample(x.theta1, x.x1, x.y1, x.theta0, u[1], u[2]))
        x_next == Coarse(rk(s, Control(0, 0), dt, TicksPerSec))
    IN [theta1 |-> x_next.theta1, x1 |-> x_next.x1, y1 |-> x_next.y1,
        theta0 |-> x_next.theta0]

\* The feedback correction of the steering angle, 0.02 rad against the sign
\* of the articulation-angle error.
CorrectionApplied(delta, error) ==
    IF error > 0 THEN delta - 1146 ELSE IF error < 0 THEN delta + 1146 ELSE delta

\* The correction as the script has it: commented out.
Correction(delta, error) == delta

\* if use_simulator: the logging arrays, the initial state, the integrator.
SimulatorInit ==
    /\ pc = "simulate"
    /\ use_simulator
    /\ sim' = [theta1 |-> Zeros(Nsim), x1 |-> Zeros(Nsim), y1 |-> Zeros(Nsim),
               theta0 |-> Zeros(Nsim), x0 |-> Zeros(Nsim), y0 |-> Zeros(Nsim)]
    /\ x_current' = [theta1 |-> theta1_t0, x1 |-> x1_t0, y1 |-> y1_t0,
                     theta0 |-> theta0_t0]
    /\ k' = 0
    /\ pc' = "simloop"
    /\ UNCHANGED <<use_simulator, gist, solveCalls, solveFailed, t1_sol, t2_sol,
                   t1_ctrl, t2_ctrl, ctrl, file, uLog, figures, frames, pngs>>

SkipSimulator ==
    /\ pc = "simulate"
    /\ ~use_simulator
    /\ pc' = "plot"
    /\ UNCHANGED <<use_simulator, gist, solveCalls, solveFailed, t1_sol, t2_sol,
                   t1_ctrl, t2_ctrl, ctrl, file, k, x_current, sim, uLog,
                   figures, frames, pngs>>

\* The logging arrays with x_next, and the truck position that goes with it,
\* written at Python's index k+1.
LogNext(x_next) ==
    [theta1 |-> [sim.theta1 EXCEPT ![k + 2] = x_next.theta1],
     x1 |-> [sim.x1 EXCEPT ![k + 2] = x_next.x1],
     y1 |-> [sim.y1 EXCEPT ![k + 2] = x_next.y1],
     theta0 |-> [sim.theta0 EXCEPT ![k + 2] = x_next.theta0],
     x0 |-> [sim.x0 EXCEPT ![k + 2] =
                x_next.x1 + RDiv(L1 * cos(100 * x_next.theta1)
                                 + M0 * cos(100 * x_next.theta0), S)],
     y0 |-> [sim.y0 EXCEPT ![k + 2] =
                x_next.y1 + RDiv(L1 * sin(100 * x_next.theta1)
                                 + M0 * sin(100 * x_next.theta0), S)]]

\* One pass of  for k in range(Nsim-1).  Python's index k is k + 1 here.
SimulatorStep ==
    /\ pc = "simloop"
    /\ k < Nsim - 1
    /\ LET beta01_sim == sim.theta0[k + 1] - sim.theta1[k + 1]
           beta01_ctrl == ctrl.theta0[k + 1] - ctrl.theta1[k + 1]
           error == beta01_ctrl - beta01_sim
           delta0_ctrl == [ctrl.delta0 EXCEPT ![k + 1] = Correction(@, error)]
           u == <<delta0_ctrl[k + 1], ctrl.v0[k + 1]>>
           dt == ctrl.t[k + 2] - ctrl.t[k + 1]
           x_next == simulator(x_current, u, dt)
       IN /\ ctrl' = [ctrl EXCEPT !.delta0 = delta0_ctrl]
          /\ uLog' = Append(uLog, u)
          /\ sim' = LogNext(x_next)
          /\ x_current' = x_next
    /\ k' = k + 1
    /\ UNCHANGED <<pc, use_simulator, gist, solveCalls, solveFailed, t1_sol,
                   t2_sol, t1_ctrl, t2_ctrl, file, figures, frames, pngs>>

\* The loop's range is exhausted.
SimulatorEnd ==
    /\ pc = "simloop"
    /\ k >= Nsim - 1
    /\ pc' = "plot"
    /\ UNCHANGED <<use_simulator, gist, solveCalls, solveFailed, t1_sol, t2_sol,
                   t1_ctrl, t2_ctrl, ctrl, file, k, x_current, sim, uLog,
                   figures, frames, pngs>>

(* ------------------------------- figures ------------------------------- *)
\* if show_figures: figure 1 (the paths, the grid end points, the walls)
\* and figure 2 (delta0 and v0 over t); the animation loop starts at k = 0.
PlotFigures ==
    /\ pc = "plot"
    /\ IF show_figures
          THEN /\ figures' = {1, 2}
               /\ k' = 0
               /\ pc' = "animate"
          ELSE /\ pc' = "done"
               /\ UNCHANGED <<figures, k>>
    /\ UNCHANGED <<use_simulator, gist, solveCalls, solveFailed, t1_sol, t2_sol,
                   t1_ctrl, t2_ctrl, ctrl, file, x_current, sim, uLog, frames,
                   pngs>>

\* One pass of the animation loop  for k in range(Nsim-1): the vehicle is
\* drawn at sample k, saved if save_for_gif, shown by pause(.001) and
\* removed again.  The arrays are only read.
PlotFrame ==
    /\ pc = "animate"
    /\ k < Nsim - 1
    /\ frames' = frames + 1
    /\ pngs' = IF save_for_gif THEN pngs + 1 ELSE pngs
    /\ k' = k + 1
    /\ UNCHANGED <<pc, use_simulator, gist, solveCalls, solveFailed, t1_sol,
                   t2_sol, t1_ctrl, t2_ctrl, ctrl, file, x_current, sim, uLog,
                   figures>>

\* The animation's range is exhausted: figure 3 if use_simulator, then
\* show(block=True), which returns when the windows are closed.
PlotShow ==
    /\ pc = "animate"
    /\ k >= Nsim - 1
    /\ figures' = IF use_simulator THEN figures \cup {3} ELSE figures
    /\ pc' = "show"
    /\ UNCHANGED <<use_simulator, gist, solveCalls, solveFailed, t1_sol, t2_sol,
                   t1_ctrl, t2_ctrl, ctrl, file, k, x_current, sim, uLog,
                   frames, pngs>>

\* The windows are closed and show(block=True) returns: the script ends.
CloseFigures ==
    /\ pc = "show"
    /\ pc' = "done"
    /\ UNCHANGED <<use_simulator, gist, solveCalls, solveFailed, t1_sol, t2_sol,
                   t1_ctrl, t2_ctrl, ctrl, file, k, x_current, sim, uLog,
                   figures, frames, pngs>>

Next ==
    \/ SolveOk
    \/ SolveFail
    \/ Resample
    \/ WriteResults
    \/ SimulatorInit
    \/ SkipSimulator
    \/ SimulatorStep
    \/ SimulatorEnd
    \/ PlotFigures
    \/ PlotFrame
    \/ PlotShow
    \/ CloseFigures

Spec == Init /\ [][Next]_vars

(* ------------------------------- claims -------------------------------- *)
Solved ==
    pc \in {"resample", "write", "simulate", "simloop", "plot", "animate",
            "show", "done"}
\* The arrays as resampling leaves them (nothing writes them afterwards, see
\* C8).
JustResampled == pc = "write"
Written == pc \in {"simulate", "simloop", "plot", "animate", "show", "done"}
SimulatorOver == pc \in {"plot", "animate", "show", "done"}

\* C1: in every solution the solver accepts, stage 1's final time is stage 2's
\* start time, and every declared state (trailer heading, trailer x, trailer
\* y, truck heading, and the two order-1 controls, which are states too) has
\* at the start of stage 2 the value it has at the end of stage 1.
C1_StitchContinuity ==
    Solved =>
        /\ gist.stage_1.t0 + gist.stage_1.T = gist.stage_2.t0
        /\ gist.stage_2.X[1].theta1 = gist.stage_1.X[N_1 + 1].theta1
        /\ gist.stage_2.X[1].x1 = gist.stage_1.X[N_1 + 1].x1
        /\ gist.stage_2.X[1].y1 = gist.stage_1.X[N_1 + 1].y1
        /\ gist.stage_2.X[1].theta0 = gist.stage_1.X[N_1 + 1].theta0
        /\ gist.stage_2.X[1].delta0 = gist.stage_1.X[N_1 + 1].delta0
        /\ gist.stage_2.X[1].v0 = gist.stage_1.X[N_1 + 1].v0

\* A solution was accepted whose stage 1 takes time and has turned and moved
\* the vehicle, so that the junction is neither the start pose nor at time 0.
C1_Witness ==
    /\ Solved
    /\ gist.stage_2.t0 > 0
    /\ gist.stage_1.X[N_1 + 1].x1 # gist.stage_1.X[1].x1
    /\ gist.stage_1.X[N_1 + 1].theta0 # gist.stage_1.X[1].theta0
    /\ gist.stage_2.X[1].y1 > ycr

\* C7: in every solution the solver accepts, stage 1 starts at time 0 with the
\* trailer at (0, 0) and both headings pi/2, and stage 2 ends with the trailer
\* at (1.5, (ycl+ycr)/2) and both headings 0.
C7_BoundaryConditions ==
    Solved =>
        /\ gist.stage_1.t0 = 0
        /\ gist.stage_1.X[1].x1 = 0
        /\ gist.stage_1.X[1].y1 = 0
        /\ gist.stage_1.X[1].theta1 = 900
        /\ gist.stage_1.X[1].theta0 = 900
        /\ gist.stage_2.X[N_2 + 1].x1 = 1500
        /\ 2 * gist.stage_2.X[N_2 + 1].y1 = 2400 + 2000
        /\ gist.stage_2.X[N_2 + 1].theta1 = 0
        /\ gist.stage_2.X[N_2 + 1].theta0 = 0

\* A solution was accepted, and the initial conditions bind nothing but stage
\* 1's start and the target nothing but stage 2's end: stage 2 does not start
\* in the initial pose and stage 1 does not end in the target pose.
C7_Witness ==
    /\ Solved
    /\ gist.stage_2.T > 0
    /\ gist.stage_2.X[1].theta1 # 900
    /\ gist.stage_2.X[1].y1 # 0
    /\ gist.stage_1.X[N_1 + 1].x1 # 1500

\* The footprint corners of both vehicles at resampled index i, and whether
\* all of them satisfy every half-plane of w.
CornersAt(i) ==
    {vert_vehic(ctrl.x0[i], ctrl.y0[i], ctrl.theta0[i],
                W0 \div 2, W0 \div 2, L0, M0)[c] : c \in 1..4}
    \cup {vert_vehic(ctrl.x1[i], ctrl.y1[i], ctrl.theta1[i],
                     W1 \div 2, W1 \div 2, L1, M1)[c] : c \in 1..4}
ContainedAt(i, w) ==
    \A p \in CornersAt(i) : \A j \in 1..Len(w) :
        w[j][1] * p[1] + w[j][2] * p[2] + w[j][3] * S <= 0
CorridorAt(i) == IF i <= Len(t1_ctrl) THEN Corridor1 ELSE Corridor2
StageAt(i) == IF i <= Len(t1_ctrl) THEN gist.stage_1 ELSE gist.stage_2

\* C2 as claimed: at every sample of the resampled trajectory every footprint
\* corner of the truck and of the trailer satisfies every half-plane of the
\* corridor of the stage the sample belongs to.
C2_ContainedAtEverySample ==
    JustResampled =>
        \A i \in 1..Len(ctrl.t) : ContainedAt(i, CorridorAt(i))

\* C2 as amended: containment holds at the resampled times that are control
\* grid points of their stage, where create_stage imposes it.
C2_ContainedOnControlGrid ==
    JustResampled =>
        \A i \in 1..Len(ctrl.t) :
            OnControlGrid(StageAt(i), ctrl.t[i]) => ContainedAt(i, CorridorAt(i))

\* A resample time falls on a control grid point of stage 1 other than its
\* two ends, where the vehicle has left the start pose and is contained, and
\* another resample time of stage 1 falls between two grid points, where a
\* footprint corner is outside stage 1's corridor.
C2_Witness ==
    /\ JustResampled
    /\ \E i \in 2..Len(t1_ctrl) :
          /\ OnControlGrid(gist.stage_1, ctrl.t[i])
          /\ ctrl.t[i] < gist.stage_1.T
          /\ ctrl.x1[i] # 0
          /\ ContainedAt(i, Corridor1)
    /\ \E i \in 2..Len(t1_ctrl) :
          /\ ~OnControlGrid(gist.stage_1, ctrl.t[i])
          /\ ~ContainedAt(i, Corridor1)

SameStage(i) == i + 1 <= Len(t1_ctrl) \/ i > Len(t1_ctrl)

\* C3 as claimed: the concatenated time array is strictly increasing, starts
\* at 0 when it is not empty, and every entry is strictly less than t2_sol.
C3_TimelineHalfOpen ==
    JustResampled =>
        /\ \A i \in 1..(Len(ctrl.t) - 1) : ctrl.t[i] < ctrl.t[i + 1]
        /\ Len(ctrl.t) > 0 => ctrl.t[1] = 0
        /\ \A i \in 1..Len(ctrl.t) : ctrl.t[i] < t2_sol

\* C4 as claimed: every two consecutive entries of the time array differ by
\* exactly Ts, the pair that straddles the stage boundary included.
C4_UniformTimestep ==
    JustResampled =>
        \A i \in 1..(Len(ctrl.t) - 1) : ctrl.t[i + 1] - ctrl.t[i] = TicksPerTs

\* C4 as amended: two consecutive entries of the same stage differ by Ts; the
\* first entry of stage 2 is t1_sol, so the pair that straddles the boundary
\* differs by t1_sol less the last stage-1 time, which is at most Ts.
C4_UniformWithinStage ==
    JustResampled =>
        /\ \A i \in 1..(Len(ctrl.t) - 1) :
              SameStage(i) => ctrl.t[i + 1] - ctrl.t[i] = TicksPerTs
        /\ Len(t1_ctrl) > 0 /\ Len(t2_ctrl) > 0 =>
              /\ ctrl.t[Len(t1_ctrl) + 1] = t1_sol
              /\ t1_sol - ctrl.t[Len(t1_ctrl)] <= TicksPerTs
              /\ t1_sol - ctrl.t[Len(t1_ctrl)] >= 0

\* Both stages were resampled at two times or more, and the pair that
\* straddles the boundary is closer than Ts.
C4_Witness ==
    /\ JustResampled
    /\ Len(t1_ctrl) >= 2
    /\ Len(t2_ctrl) >= 2
    /\ ctrl.t[Len(t1_ctrl) + 1] - ctrl.t[Len(t1_ctrl)] < TicksPerTs

\* C5: in the document written to the output file every array under x, every
\* array under u and the array t have the same length, the number of stage-1
\* resample times plus the number of stage-2 resample times.
C5_EqualLengths ==
    Written =>
        LET n == Len(t1_ctrl) + Len(t2_ctrl)
        IN /\ \A a \in {"px1", "py1", "theta1", "px0", "py0", "theta0"} :
                 Len(file.content.x[a]) = n
           /\ \A a \in {"delta", "v_l"} : Len(file.content.u[a]) = n
           /\ Len(file.content.t) = n

\* The file was written from two stages with different numbers of resample
\* times.
C5_Witness ==
    /\ Written
    /\ file.writes = 1
    /\ Len(t1_ctrl) >= 2
    /\ Len(t2_ctrl) >= 1
    /\ Len(t1_ctrl) # Len(t2_ctrl)
    /\ Len(file.content.x.px0) = Len(t1_ctrl) + Len(t2_ctrl)

\* C6: a solve call that fails is neither caught nor retried: the script ends
\* in an error state with nothing resampled, the results file never opened or
\* written, no integrator step taken and nothing plotted.  When the solve
\* succeeds the results file is opened, written and closed exactly once,
\* after resampling and before any simulation or plotting.
C6_FailStopsWriteOnce ==
    /\ solveCalls <= 1
    /\ solveFailed =>
          /\ pc = "error"
          /\ t1_ctrl = <<>> /\ t2_ctrl = <<>> /\ ctrl = NoArrays
          /\ file.opens = 0 /\ file.writes = 0 /\ file.closes = 0
          /\ uLog = <<>> /\ sim = NoSim
          /\ figures = {} /\ frames = 0
    /\ file.opens = file.writes /\ file.writes = file.closes
    /\ file.writes = (IF Written THEN 1 ELSE 0)
    /\ file.writes = 1 => ~solveFailed /\ file.content.t = t1_ctrl \o t2_ctrl
    /\ file.writes = 0 => uLog = <<>> /\ sim = NoSim /\ figures = {} /\ frames = 0
    /\ pc = "error" => solveFailed

\* The only call of the solver failed and the script has ended.
C6_Witness ==
    /\ pc = "error"
    /\ solveFailed
    /\ solveCalls = 1
    /\ file.opens = 0

\* C8: the simulator applies no feedback correction: through the loop the
\* resampled arrays stay as they were resampled and written, the control
\* handed to the integrator at step k is (delta0_ctrl[k], v0_ctrl[k]) whatever
\* the articulation-angle error, the loop takes Nsim-1 steps, and with the
\* toggle off no integrator step is taken at all.
C8_NoFeedback ==
    /\ Written => result_yaml = file.content
    /\ pc = "simloop" => Len(uLog) = k
    /\ \A j \in 1..Len(uLog) :
          uLog[j] = <<file.content.u.delta[j], file.content.u.v_l[j]>>
    /\ SimulatorOver /\ use_simulator /\ Nsim > 0 => Len(uLog) = Nsim - 1
    /\ use_simulator = use_simulator_default =>
          uLog = <<>> /\ sim = NoSim /\ x_current = NoState

\* The loop has ended after two steps or more, and at one of them the planned
\* articulation angle differed from the simulated one.
C8_Witness ==
    /\ pc = "done"
    /\ use_simulator
    /\ Len(uLog) >= 2
    /\ \E j \in 2..Len(uLog) :
          ctrl.theta0[j] - ctrl.theta1[j] # sim.theta0[j] - sim.theta1[j]

\* The integrator's state after the first j resampled controls.
RECURSIVE IntegratorState(_)
IntegratorState(j) ==
    IF j = 0
    THEN [theta1 |-> theta1_t0, x1 |-> x1_t0, y1 |-> y1_t0, theta0 |-> theta0_t0]
    ELSE simulator(IntegratorState(j - 1), <<ctrl.delta0[j], ctrl.v0[j]>>,
                   ctrl.t[j + 1] - ctrl.t[j])

Logged(j) ==
    [theta1 |-> sim.theta1[j], x1 |-> sim.x1[j], y1 |-> sim.y1[j],
     theta0 |-> sim.theta0[j]]

\* C9 as claimed: with the simulator enabled, the logged simulated state at
\* every index k of 0..Nsim-1 is the integrator's state after the first k
\* resampled controls; at index 0 it is the initial state.
C9_LoggedFromInitialState ==
    pc = "plot" /\ use_simulator =>
        \A j \in 1..Nsim : Logged(j) = IntegratorState(j - 1)

\* C10 as claimed: every stage-1 resample time lies in [stage_1.t0,
\* stage_1.tf), every stage-2 resample time in [stage_2.t0, stage_2.tf), and
\* no time is evaluated by both samplers.
C10_SamplesInsideOwnStage ==
    JustResampled =>
        /\ \A i \in 1..Len(t1_ctrl) :
              /\ gist.stage_1.t0 <= t1_ctrl[i]
              /\ t1_ctrl[i] < gist.stage_1.t0 + gist.stage_1.T
        /\ \A i \in 1..Len(t2_ctrl) :
              /\ gist.stage_2.t0 <= t2_ctrl[i]
              /\ t2_ctrl[i] < gist.stage_2.t0 + gist.stage_2.T
        /\ \A i \in 1..Len(t1_ctrl) : \A j \in 1..Len(t2_ctrl) :
              t1_ctrl[i] # t2_ctrl[j]

====
